---- MODULE Spec2Model ----
(***************************************************************************)
(* Model of the IP2Location pipeline of parse.go: the request handler      *)
(* ip2locInit (the coordinator), the goroutines reader and parser, the     *)
(* buffered row channel `line`, the unbuffered error channel `chErr` and   *)
(* the package-level channels `cancel` and `done`.                         *)
(*                                                                         *)
(* Go indices are 0-based; a row v of the model is a TLA+ sequence, so the *)
(* Go expression v[i] is Field(v, i) == v[i + 1].  A text field is a       *)
(* sequence of one-character strings, so that the parse of the upper bound *)
(* is computed digit by digit.                                             *)
(***************************************************************************)
EXTENDS Integers, Sequences, FiniteSets, TLC

\* ------------------------------------------------------------------ bounds
MaxRuns == 2
MaxRows == 3
MaxFiles == 2
MaxCap == 2

Runs == 1..MaxRuns

\* ------------------------------------------------------- text and numbers
Digits == {"0", "1", "2", "3", "4", "5", "6", "7", "8", "9"}

DigitVal(c) ==
  CASE c = "0" -> 0 [] c = "1" -> 1 [] c = "2" -> 2 [] c = "3" -> 3
    [] c = "4" -> 4 [] c = "5" -> 5 [] c = "6" -> 6 [] c = "7" -> 7
    [] c = "8" -> 8 [] c = "9" -> 9

RECURSIVE DecVal(_)
DecVal(s) ==
  IF s = <<>> THEN 0
  ELSE 10 * DecVal(SubSeq(s, 1, Len(s) - 1)) + DigitVal(s[Len(s)])

\* big.Int.SetString(s, 10): an optional sign, then one or more decimal
\* digits, and nothing else; the whole string must be consumed.
SetStringBody(s) ==
  IF Len(s) > 0 /\ s[1] \in {"+", "-"} THEN Tail(s) ELSE s

SetStringOk(s) ==
  /\ Len(SetStringBody(s)) > 0
  /\ \A i \in 1..Len(SetStringBody(s)) : SetStringBody(s)[i] \in Digits

SetStringVal(s) ==
  IF Len(s) > 0 /\ s[1] = "-" THEN 0 - DecVal(SetStringBody(s))
  ELSE DecVal(SetStringBody(s))

\* ------------------------------------------------------------------- rows
Field(v, i) == v[i + 1]
HasField(v, i) == Len(v) > i

Sentinel == <<"-">>
EmptyStr == <<>>
US == <<"U", "S">>
FR == <<"F", "R">>

supportedCountries == {<<"A", "U">>, <<"C", "A">>, <<"G", "B">>, US}

TargetName == "IPV6-COUNTRY-REGION-CITY.CSV"
OtherName == "LICENSE.TXT"

RowUS == <<<<"0">>, <<"1", "2">>, US, Sentinel, <<"C", "A">>, <<"L", "A">>>>
RowFR == <<<<"0">>, <<"9">>, FR, Sentinel, <<"I", "F">>, <<"P">>>>
RowSentinel == <<<<"0">>, <<"7">>, Sentinel, Sentinel, Sentinel, Sentinel>>
RowBadSentinel == <<<<"0">>, <<"1", "x">>, Sentinel, Sentinel, Sentinel, Sentinel>>
RowOneField == <<<<"0">>>>
RowTwoFields == <<<<"0">>, <<"5">>>>
RowUSFive == <<<<"0">>, <<"3">>, US, Sentinel, <<"C", "A">>>>

RowPool ==
  {RowUS, RowFR, RowSentinel, RowBadSentinel,
   RowOneField, RowTwoFields, RowUSFive}

SeqUpTo(S, n) == UNION {[1..k -> S] : k \in 0..n}

\* ----------------------------------------------------------------- inputs
\* An archive: whether zip.NewReader accepts it, the names of its entries,
\* whether the target entry opens, the rows csv.Reader yields from it, and
\* whether the stream ends with a read error instead of io.EOF.
MkInput(z, f, o, rw, e) ==
  [zipOK |-> z, files |-> f, openOK |-> o, rows |-> rw, readErr |-> e]

HasTarget(f) == \E i \in 1..Len(f) : f[i] = TargetName

\* The entry lists of the archives: entry names are distinct, so at most one
\* entry has the target name.

FileLists ==
  {f \in SeqUpTo({TargetName, OtherName}, MaxFiles) :
      Cardinality({i \in 1..Len(f) : f[i] = TargetName}) <= 1}

\* The inputs: an archive zip.NewReader rejects; archives without the target
\* entry; archives whose target entry does not open; the archive holding
\* only the target entry, with every row sequence up to MaxRows; and the
\* target entry among other entries, with at most one row.
InputSet ==
  {MkInput(FALSE, <<>>, TRUE, <<>>, FALSE)}
  \cup {MkInput(TRUE, f, TRUE, <<>>, FALSE) : f \in {g \in FileLists : ~HasTarget(g)}}
  \cup {MkInput(TRUE, f, FALSE, <<>>, FALSE) : f \in {g \in FileLists : HasTarget(g)}}
  \cup {MkInput(TRUE, <<TargetName>>, TRUE, x[1], x[2]) :
          x \in SeqUpTo(RowPool, MaxRows) \X BOOLEAN}
  \cup {MkInput(TRUE, f, TRUE, x[1], x[2]) :
          f \in {g \in FileLists : HasTarget(g)},
          x \in SeqUpTo(RowPool, 1) \X BOOLEAN}

DefaultInput == MkInput(TRUE, <<>>, TRUE, <<>>, FALSE)

\* ----------------------------------------------------------------- errors
NoErr == [kind |-> "none", row |-> <<>>]
ZipErr == [kind |-> "zip", row |-> <<>>]
OpenErr == [kind |-> "open", row |-> <<>>]
ReadErr == [kind |-> "read", row |-> <<>>]
ParseErr(v) == [kind |-> "parse", row |-> v]

\* ------------------------------------------------------------------ state
VARIABLES
  requests,      \* the runs (requests) that are served
  input,         \* input[r]: the archive fetched for run r
  cap,           \* cap[r]: capacity of the row channel `line` of run r
  cancel,        \* package variable cancel: id of the channel it holds, 0 = nil
  done,          \* package variable done: id of the channel it holds, 0 = nil
  cancelClosed,  \* ids of the cancel channels that are closed
  doneClosed,    \* ids of the done channels that are closed
  panicked,      \* "none", or the runtime panic that ended the process
  cpc,           \* cpc[r]: position of ip2locInit
  selDone,       \* selDone[r]: the done channel the select of run r waits on
  result,        \* result[r]: the error of the returned *appError, or NoErr
  delivered,     \* delivered[r]: records encoded to the response
  line,          \* line[r]: content of the row channel
  lineClosed,    \* lineClosed[r]: the row channel is closed
  rpc,           \* rpc[r]: position of reader
  fi,            \* fi[r]: index into zipPack.File
  ri,            \* ri[r]: number of rows csv.Reader has yielded
  rerr,          \* rerr[r]: the error reader sends or sent on abort
  ppc,           \* ppc[r]: position of parser
  v,             \* v[r]: the row parser took from the channel
  perr,          \* perr[r]: the error parser sends or sent on abort
  recs           \* recs[r]: the slice recs of ip2locInit

vars ==
  <<requests, input, cap, cancel, done, cancelClosed, doneClosed, panicked,
    cpc, selDone, result, delivered, line, lineClosed,
    rpc, fi, ri, rerr, ppc, v, perr, recs>>

inputVars == <<requests, input, cap>>
globalVars == <<cancel, done, cancelClosed, doneClosed, panicked>>
coordVars == <<cpc, selDone, result, delivered>>
readerVars == <<rpc, fi, ri, rerr>>
parserVars == <<ppc, v, perr, recs>>
lineVars == <<line, lineClosed>>

Alive == panicked = "none"

InitRun ==
  /\ cancel = 0
  /\ done = 0
  /\ cancelClosed = {}
  /\ doneClosed = {}
  /\ panicked = "none"
  /\ cpc = [r \in Runs |-> "idle"]
  /\ selDone = [r \in Runs |-> 0]
  /\ result = [r \in Runs |-> NoErr]
  /\ delivered = [r \in Runs |-> <<>>]
  /\ line = [r \in Runs |-> <<>>]
  /\ lineClosed = [r \in Runs |-> FALSE]
  /\ rpc = [r \in Runs |-> "idle"]
  /\ fi = [r \in Runs |-> 1]
  /\ ri = [r \in Runs |-> 0]
  /\ rerr = [r \in Runs |-> NoErr]
  /\ ppc = [r \in Runs |-> "idle"]
  /\ v = [r \in Runs |-> <<>>]
  /\ perr = [r \in Runs |-> NoErr]
  /\ recs = [r \in Runs |-> <<>>]

\* One request: the archive and the channel capacity range over the bounds.
Init ==
  /\ requests = {1}
  /\ \E in1 \in InputSet :
       input = [r \in Runs |-> IF r = 1 THEN in1 ELSE DefaultInput]
  /\ \E c1 \in 1..MaxCap : cap = [r \in Runs |-> IF r = 1 THEN c1 ELSE 1]
  /\ InitRun

\* ------------------------------------------------------------ coordinator
\* ip2locInit after fetch succeeded: line and chErr are made.
MakeLine(r) ==
  /\ Alive
  /\ r \in requests
  /\ cpc[r] = "idle"
  /\ cpc' = [cpc EXCEPT ![r] = "mkCancel"]
  /\ UNCHANGED <<inputVars, globalVars, selDone, result, delivered,
                 lineVars, readerVars, parserVars>>

\* cancel = make(chan struct{})
MakeCancel(r) ==
  /\ Alive
  /\ cpc[r] = "mkCancel"
  /\ cancel' = r
  /\ cpc' = [cpc EXCEPT ![r] = "mkDone"]
  /\ UNCHANGED <<inputVars, done, cancelClosed, doneClosed, panicked,
                 selDone, result, delivered, lineVars, readerVars, parserVars>>

\* done = make(chan struct{})
MakeDone(r) ==
  /\ Alive
  /\ cpc[r] = "mkDone"
  /\ done' = r
  /\ cpc' = [cpc EXCEPT ![r] = "goReader"]
  /\ UNCHANGED <<inputVars, cancel, cancelClosed, doneClosed, panicked,
                 selDone, result, delivered, lineVars, readerVars, parserVars>>

\* go reader(b, rl, line, chErr)
GoReader(r) ==
  /\ Alive
  /\ cpc[r] = "goReader"
  /\ cpc' = [cpc EXCEPT ![r] = "goParser"]
  /\ rpc' = [rpc EXCEPT ![r] = "open"]
  /\ UNCHANGED <<inputVars, globalVars, selDone, result, delivered,
                 lineVars, fi, ri, rerr, parserVars>>

\* go parser(&recs, line, chErr)
GoParser(r) ==
  /\ Alive
  /\ cpc[r] = "goParser"
  /\ cpc' = [cpc EXCEPT ![r] = "enterSelect"]
  /\ ppc' = [ppc EXCEPT ![r] = "recv"]
  /\ UNCHANGED <<inputVars, globalVars, selDone, result, delivered,
                 lineVars, readerVars, v, perr, recs>>

\* select: the channel operand `done` is evaluated once, on entry.
EnterSelect(r) ==
  /\ Alive
  /\ cpc[r] = "enterSelect"
  /\ selDone' = [selDone EXCEPT ![r] = done]
  /\ cpc' = [cpc EXCEPT ![r] = "select"]
  /\ UNCHANGED <<inputVars, globalVars, result, delivered,
                 lineVars, readerVars, parserVars>>

\* case e := <-chErr, the sender being reader: return &appError{e, ...}
RecvReaderErr(r) ==
  /\ Alive
  /\ cpc[r] = "select"
  /\ rpc[r] = "sendErr"
  /\ result' = [result EXCEPT ![r] = rerr[r]]
  /\ cpc' = [cpc EXCEPT ![r] = "failed"]
  /\ rpc' = [rpc EXCEPT ![r] = "closeCancel"]
  /\ UNCHANGED <<inputVars, globalVars, selDone, delivered,
                 lineVars, fi, ri, rerr, parserVars>>

\* Variant of RecvParserErr: chErr has a buffer, so the send of the parser
\* also completes after the handler has returned.
RecvParserErr_Buffered(r) ==
  /\ Alive
  /\ cpc[r] \in {"select", "failed"}
  /\ ppc[r] = "sendErr"
  /\ result' = [result EXCEPT ![r] = IF cpc[r] = "select" THEN perr[r] ELSE result[r]]
  /\ cpc' = [cpc EXCEPT ![r] = "failed"]
  /\ ppc' = [ppc EXCEPT ![r] = "closeCancel"]
  /\ UNCHANGED <<inputVars, globalVars, selDone, delivered,
                 lineVars, readerVars, v, perr, recs>>

\* Variant of RecvParserErr: the error case of the select does not return,
\* so the handler goes on to write the response.
RecvParserErr_NoReturn(r) ==
  /\ Alive
  /\ cpc[r] = "select"
  /\ ppc[r] = "sendErr"
  /\ result' = [result EXCEPT ![r] = perr[r]]
  /\ cpc' = [cpc EXCEPT ![r] = "respond"]
  /\ ppc' = [ppc EXCEPT ![r] = "closeCancel"]
  /\ UNCHANGED <<inputVars, globalVars, selDone, delivered,
                 lineVars, readerVars, v, perr, recs>>

\* case e := <-chErr, the sender being parser: return &appError{e, ...}
RecvParserErr(r) ==
  /\ Alive
  /\ cpc[r] = "select"
  /\ ppc[r] = "sendErr"
  /\ result' = [result EXCEPT ![r] = perr[r]]
  /\ cpc' = [cpc EXCEPT ![r] = "failed"]
  /\ ppc' = [ppc EXCEPT ![r] = "closeCancel"]
  /\ UNCHANGED <<inputVars, globalVars, selDone, delivered,
                 lineVars, readerVars, v, perr, recs>>

\* Variant of RecvDone: the handler does not wait for done to be closed.
RecvDone_NoWait(r) ==
  /\ Alive
  /\ cpc[r] = "select"
  /\ cpc' = [cpc EXCEPT ![r] = "respond"]
  /\ UNCHANGED <<inputVars, globalVars, selDone, result, delivered,
                 lineVars, readerVars, parserVars>>

\* case <-done
RecvDone(r) ==
  /\ Alive
  /\ cpc[r] = "select"
  /\ selDone[r] \in doneClosed
  /\ cpc' = [cpc EXCEPT ![r] = "respond"]
  /\ UNCHANGED <<inputVars, globalVars, selDone, result, delivered,
                 lineVars, readerVars, parserVars>>

\* Recs-Length header and the loop encoding every element of recs; the
\* response writer accepts every write, so Encode returns no error.
Respond(r) ==
  /\ Alive
  /\ cpc[r] = "respond"
  /\ delivered' = [delivered EXCEPT ![r] = recs[r]]
  /\ cpc' = [cpc EXCEPT ![r] = "completed"]
  /\ UNCHANGED <<inputVars, globalVars, selDone, result,
                 lineVars, readerVars, parserVars>>

\* Variant of ReaderOpenZip: on an error close(cancel) comes before
\* abort <- err.
ReaderOpenZip_CloseBeforeSend(r) ==
  /\ Alive
  /\ rpc[r] = "open"
  /\ IF input[r].zipOK
       THEN /\ rpc' = [rpc EXCEPT ![r] = "files"]
            /\ rerr' = rerr
       ELSE /\ rpc' = [rpc EXCEPT ![r] = "closeCancel"]
            /\ rerr' = [rerr EXCEPT ![r] = ZipErr]
  /\ UNCHANGED <<inputVars, globalVars, coordVars, lineVars, fi, ri, parserVars>>

\* ----------------------------------------------------------------- reader
\* zipPack, err := zip.NewReader(...); on error the reader goes to
\* abort <- err, otherwise to the loop over zipPack.File.
ReaderOpenZip(r) ==
  /\ Alive
  /\ rpc[r] = "open"
  /\ IF input[r].zipOK
       THEN /\ rpc' = [rpc EXCEPT ![r] = "files"]
            /\ rerr' = rerr
       ELSE /\ rpc' = [rpc EXCEPT ![r] = "sendErr"]
            /\ rerr' = [rerr EXCEPT ![r] = ZipErr]
  /\ UNCHANGED <<inputVars, globalVars, coordVars, lineVars, fi, ri, parserVars>>

\* Variant of ReaderNextFile: close(out) is not deferred, and the return at
\* the end of the range over zipPack.File leaves the channel open.
ReaderNextFile_NoClose(r) ==
  /\ Alive
  /\ rpc[r] = "files"
  /\ IF fi[r] > Len(input[r].files)
       THEN /\ rpc' = [rpc EXCEPT ![r] = "done"]
            /\ UNCHANGED <<fi, rerr>>
       ELSE IF input[r].files[fi[r]] # TargetName
         THEN /\ fi' = [fi EXCEPT ![r] = fi[r] + 1]
              /\ UNCHANGED <<rpc, rerr>>
         ELSE IF input[r].openOK
           THEN /\ rpc' = [rpc EXCEPT ![r] = "poll"]
                /\ UNCHANGED <<fi, rerr>>
           ELSE /\ rpc' = [rpc EXCEPT ![r] = "sendErr"]
                /\ rerr' = [rerr EXCEPT ![r] = OpenErr]
                /\ fi' = fi
  /\ UNCHANGED <<inputVars, globalVars, coordVars, lineVars, ri, parserVars>>

\* Variant of ReaderNextFile: reaching the end of zipPack.File without
\* having met the target entry is reported as an error.
ReaderNextFile_MissingIsError(r) ==
  /\ Alive
  /\ rpc[r] = "files"
  /\ IF fi[r] > Len(input[r].files)
       THEN IF HasTarget(input[r].files)
         THEN /\ rpc' = [rpc EXCEPT ![r] = "closeOut"]
              /\ UNCHANGED <<fi, rerr>>
         ELSE /\ rpc' = [rpc EXCEPT ![r] = "sendErr"]
              /\ rerr' = [rerr EXCEPT ![r] = OpenErr]
              /\ fi' = fi
       ELSE IF input[r].files[fi[r]] # TargetName
         THEN /\ fi' = [fi EXCEPT ![r] = fi[r] + 1]
              /\ UNCHANGED <<rpc, rerr>>
         ELSE IF input[r].openOK
           THEN /\ rpc' = [rpc EXCEPT ![r] = "poll"]
                /\ UNCHANGED <<fi, rerr>>
           ELSE /\ rpc' = [rpc EXCEPT ![r] = "sendErr"]
                /\ rerr' = [rerr EXCEPT ![r] = OpenErr]
                /\ fi' = fi
  /\ UNCHANGED <<inputVars, globalVars, coordVars, lineVars, ri, parserVars>>

\* for _, f := range zipPack.File: the end of the range (return), an entry
\* with another name (next f), or the target entry: f.Open() and, on
\* success, csv.NewReader.
ReaderNextFile(r) ==
  /\ Alive
  /\ rpc[r] = "files"
  /\ IF fi[r] > Len(input[r].files)
       THEN /\ rpc' = [rpc EXCEPT ![r] = "closeOut"]
            /\ UNCHANGED <<fi, rerr>>
       ELSE IF input[r].files[fi[r]] # TargetName
         THEN /\ fi' = [fi EXCEPT ![r] = fi[r] + 1]
              /\ UNCHANGED <<rpc, rerr>>
         ELSE IF input[r].openOK
           THEN /\ rpc' = [rpc EXCEPT ![r] = "poll"]
                /\ UNCHANGED <<fi, rerr>>
           ELSE /\ rpc' = [rpc EXCEPT ![r] = "sendErr"]
                /\ rerr' = [rerr EXCEPT ![r] = OpenErr]
                /\ fi' = fi
  /\ UNCHANGED <<inputVars, globalVars, coordVars, lineVars, ri, parserVars>>

\* cancelled(): a receive on the channel the package variable cancel holds
\* now, with a default case; a nil channel is never ready.
cancelled == cancel \in cancelClosed

\* Variant of ReaderIter: the row loop does not call cancelled().
ReaderIter_NoPoll(r) ==
  /\ Alive
  /\ rpc[r] = "poll"
  /\ IF ri[r] < Len(input[r].rows)
       THEN /\ rpc' = [rpc EXCEPT ![r] = "push"]
            /\ ri' = [ri EXCEPT ![r] = ri[r] + 1]
            /\ UNCHANGED <<fi, rerr>>
       ELSE IF input[r].readErr
         THEN /\ rpc' = [rpc EXCEPT ![r] = "sendErr"]
              /\ rerr' = [rerr EXCEPT ![r] = ReadErr]
              /\ UNCHANGED <<fi, ri>>
         ELSE /\ rpc' = [rpc EXCEPT ![r] = "files"]
              /\ fi' = [fi EXCEPT ![r] = fi[r] + 1]
              /\ UNCHANGED <<ri, rerr>>
  /\ UNCHANGED <<inputVars, globalVars, coordVars, lineVars, parserVars>>

\* The head of the row loop: if cancelled() { return }, then r.Read():
\* io.EOF breaks to the next file, another error goes to abort <- err, a
\* row goes to out <- rec.
ReaderIter(r) ==
  /\ Alive
  /\ rpc[r] = "poll"
  /\ IF cancelled
       THEN /\ rpc' = [rpc EXCEPT ![r] = "closeOut"]
            /\ UNCHANGED <<fi, ri, rerr>>
       ELSE IF ri[r] < Len(input[r].rows)
         THEN /\ rpc' = [rpc EXCEPT ![r] = "push"]
              /\ ri' = [ri EXCEPT ![r] = ri[r] + 1]
              /\ UNCHANGED <<fi, rerr>>
         ELSE IF input[r].readErr
           THEN /\ rpc' = [rpc EXCEPT ![r] = "sendErr"]
                /\ rerr' = [rerr EXCEPT ![r] = ReadErr]
                /\ UNCHANGED <<fi, ri>>
           ELSE /\ rpc' = [rpc EXCEPT ![r] = "files"]
                /\ fi' = [fi EXCEPT ![r] = fi[r] + 1]
                /\ UNCHANGED <<ri, rerr>>
  /\ UNCHANGED <<inputVars, globalVars, coordVars, lineVars, parserVars>>

\* out <- rec: blocks while the buffer of the channel is full.
ReaderPush(r) ==
  /\ Alive
  /\ rpc[r] = "push"
  /\ Len(line[r]) < cap[r]
  /\ line' = [line EXCEPT ![r] = Append(line[r], input[r].rows[ri[r]])]
  /\ rpc' = [rpc EXCEPT ![r] = "poll"]
  /\ UNCHANGED <<inputVars, globalVars, coordVars, lineClosed, fi, ri, rerr,
                 parserVars>>

\* Variant of ReaderCloseCancel: close(out) is not deferred, so the return
\* after close(cancel) leaves the row channel open.
ReaderCloseCancel_NoDefer(r) ==
  /\ Alive
  /\ rpc[r] = "closeCancel"
  /\ IF cancel \in cancelClosed \/ cancel = 0
       THEN /\ panicked' = "close of closed channel"
            /\ UNCHANGED <<cancelClosed, rpc>>
       ELSE /\ cancelClosed' = cancelClosed \cup {cancel}
            /\ rpc' = [rpc EXCEPT ![r] = "done"]
            /\ panicked' = panicked
  /\ UNCHANGED <<inputVars, cancel, done, doneClosed, coordVars, lineVars,
                 fi, ri, rerr, parserVars>>

\* close(cancel) after abort <- err returned: closing a closed channel (or a
\* nil one) is a runtime panic, which ends the process.
ReaderCloseCancel(r) ==
  /\ Alive
  /\ rpc[r] = "closeCancel"
  /\ IF cancel \in cancelClosed \/ cancel = 0
       THEN /\ panicked' = "close of closed channel"
            /\ UNCHANGED <<cancelClosed, rpc>>
       ELSE /\ cancelClosed' = cancelClosed \cup {cancel}
            /\ rpc' = [rpc EXCEPT ![r] = "closeOut"]
            /\ panicked' = panicked
  /\ UNCHANGED <<inputVars, cancel, done, doneClosed, coordVars, lineVars,
                 fi, ri, rerr, parserVars>>

\* defer close(out), run by every return of reader.
ReaderCloseOut(r) ==
  /\ Alive
  /\ rpc[r] = "closeOut"
  /\ lineClosed' = [lineClosed EXCEPT ![r] = TRUE]
  /\ rpc' = [rpc EXCEPT ![r] = "done"]
  /\ UNCHANGED <<inputVars, globalVars, coordVars, line, fi, ri, rerr,
                 parserVars>>

\* Variant of ParserRecv: the receive takes the newest row of the buffer.
ParserRecv_Newest(r) ==
  /\ Alive
  /\ ppc[r] = "recv"
  /\ IF line[r] # <<>>
       THEN /\ v' = [v EXCEPT ![r] = line[r][Len(line[r])]]
            /\ line' = [line EXCEPT ![r] = SubSeq(line[r], 1, Len(line[r]) - 1)]
            /\ ppc' = [ppc EXCEPT ![r] = "poll"]
       ELSE /\ lineClosed[r]
            /\ ppc' = [ppc EXCEPT ![r] = "closeDone"]
            /\ UNCHANGED <<v, line>>
  /\ UNCHANGED <<inputVars, globalVars, coordVars, lineClosed, readerVars,
                 perr, recs>>

\* ----------------------------------------------------------------- parser
\* for v := range in: takes the oldest row; when the channel is closed and
\* empty the loop ends and parser goes to close(done).
ParserRecv(r) ==
  /\ Alive
  /\ ppc[r] = "recv"
  /\ IF line[r] # <<>>
       THEN /\ v' = [v EXCEPT ![r] = Head(line[r])]
            /\ line' = [line EXCEPT ![r] = Tail(line[r])]
            /\ ppc' = [ppc EXCEPT ![r] = "poll"]
       ELSE /\ lineClosed[r]
            /\ ppc' = [ppc EXCEPT ![r] = "closeDone"]
            /\ UNCHANGED <<v, line>>
  /\ UNCHANGED <<inputVars, globalVars, coordVars, lineClosed, readerVars,
                 perr, recs>>

\* Variant of ParserPoll: the loop body does not call cancelled().
ParserPoll_NoPoll(r) ==
  /\ Alive
  /\ ppc[r] = "poll"
  /\ ppc' = [ppc EXCEPT ![r] = "parse"]
  /\ UNCHANGED <<inputVars, globalVars, coordVars, lineVars, readerVars,
                 v, perr, recs>>

\* if cancelled() { return }
ParserPoll(r) ==
  /\ Alive
  /\ ppc[r] = "poll"
  /\ ppc' = [ppc EXCEPT ![r] = IF cancelled THEN "done" ELSE "parse"]
  /\ UNCHANGED <<inputVars, globalVars, coordVars, lineVars, readerVars,
                 v, perr, recs>>

\* The index expressions the body of the loop evaluates on row w, in order:
\* v[1]; v[2] if the number parses; v[4] and v[5] if the code is supported.
\* An index past the end of the slice is a runtime panic.
IndexPanics(w) ==
  \/ ~HasField(w, 1)
  \/ /\ SetStringOk(Field(w, 1))
     /\ \/ ~HasField(w, 2)
        \/ /\ Field(w, 2) # Sentinel
           /\ Field(w, 2) \in supportedCountries
           /\ ~HasField(w, 5)

\* Variant of MakeRec: Region and City are copied for every country.
MakeRec_AlwaysFill(w) ==
  [ToIP |-> SetStringVal(Field(w, 1)),
   CountryCode |-> Field(w, 2),
   Region |-> IF HasField(w, 5) THEN Field(w, 4) ELSE EmptyStr,
   City |-> IF HasField(w, 5) THEN Field(w, 5) ELSE EmptyStr]

\* rec := ip2locRec{ToIP, CountryCode}; Region and City only for a
\* supported country.
MakeRec(w) ==
  [ToIP |-> SetStringVal(Field(w, 1)),
   CountryCode |-> Field(w, 2),
   Region |-> IF Field(w, 2) \in supportedCountries THEN Field(w, 4) ELSE EmptyStr,
   City |-> IF Field(w, 2) \in supportedCountries THEN Field(w, 5) ELSE EmptyStr]

\* Variant of ParserRow: the "-" test is missing, every parsed row is kept.
ParserRow_NoSkip(r) ==
  /\ Alive
  /\ ppc[r] = "parse"
  /\ IF IndexPanics(v[r])
       THEN /\ panicked' = "index out of range"
            /\ UNCHANGED <<ppc, perr, recs>>
       ELSE /\ panicked' = panicked
            /\ IF ~SetStringOk(Field(v[r], 1))
                 THEN /\ perr' = [perr EXCEPT ![r] = ParseErr(v[r])]
                      /\ ppc' = [ppc EXCEPT ![r] = "sendErr"]
                      /\ recs' = recs
                 ELSE /\ ppc' = [ppc EXCEPT ![r] = "recv"]
                      /\ perr' = perr
                      /\ recs' = [recs EXCEPT ![r] = Append(recs[r], MakeRec(v[r]))]
  /\ UNCHANGED <<inputVars, cancel, done, cancelClosed, doneClosed, coordVars,
                 lineVars, readerVars, v>>

\* Variant of ParserRow: the "-" test comes before SetString, so a sentinel
\* row is skipped whatever its upper bound.
ParserRow_SentinelFirst(r) ==
  /\ Alive
  /\ ppc[r] = "parse"
  /\ IF IndexPanics(v[r])
       THEN /\ panicked' = "index out of range"
            /\ UNCHANGED <<ppc, perr, recs>>
       ELSE /\ panicked' = panicked
            /\ IF HasField(v[r], 2) /\ Field(v[r], 2) = Sentinel
                 THEN /\ ppc' = [ppc EXCEPT ![r] = "recv"]
                      /\ UNCHANGED <<perr, recs>>
                 ELSE IF ~SetStringOk(Field(v[r], 1))
                   THEN /\ perr' = [perr EXCEPT ![r] = ParseErr(v[r])]
                        /\ ppc' = [ppc EXCEPT ![r] = "sendErr"]
                        /\ recs' = recs
                   ELSE /\ ppc' = [ppc EXCEPT ![r] = "recv"]
                        /\ perr' = perr
                        /\ recs' = [recs EXCEPT ![r] = Append(recs[r], MakeRec(v[r]))]
  /\ UNCHANGED <<inputVars, cancel, done, cancelClosed, doneClosed, coordVars,
                 lineVars, readerVars, v>>

\* The body of the loop for the row v: SetString, the "-" test, the record
\* and the append.
ParserRow(r) ==
  /\ Alive
  /\ ppc[r] = "parse"
  /\ IF IndexPanics(v[r])
       THEN /\ panicked' = "index out of range"
            /\ UNCHANGED <<ppc, perr, recs>>
       ELSE /\ panicked' = panicked
            /\ IF ~SetStringOk(Field(v[r], 1))
                 THEN /\ perr' = [perr EXCEPT ![r] = ParseErr(v[r])]
                      /\ ppc' = [ppc EXCEPT ![r] = "sendErr"]
                      /\ recs' = recs
                 ELSE /\ ppc' = [ppc EXCEPT ![r] = "recv"]
                      /\ perr' = perr
                      /\ recs' = IF Field(v[r], 2) = Sentinel THEN recs
                                 ELSE [recs EXCEPT ![r] = Append(recs[r], MakeRec(v[r]))]
  /\ UNCHANGED <<inputVars, cancel, done, cancelClosed, doneClosed, coordVars,
                 lineVars, readerVars, v>>

\* close(cancel) after abort <- err returned.
ParserCloseCancel(r) ==
  /\ Alive
  /\ ppc[r] = "closeCancel"
  /\ IF cancel \in cancelClosed \/ cancel = 0
       THEN /\ panicked' = "close of closed channel"
            /\ UNCHANGED <<cancelClosed, ppc>>
       ELSE /\ cancelClosed' = cancelClosed \cup {cancel}
            /\ ppc' = [ppc EXCEPT ![r] = "done"]
            /\ panicked' = panicked
  /\ UNCHANGED <<inputVars, cancel, done, doneClosed, coordVars, lineVars,
                 readerVars, v, perr, recs>>

\* close(done) after the range loop ended.
ParserCloseDone(r) ==
  /\ Alive
  /\ ppc[r] = "closeDone"
  /\ IF done \in doneClosed \/ done = 0
       THEN /\ panicked' = "close of closed channel"
            /\ UNCHANGED <<doneClosed, ppc>>
       ELSE /\ doneClosed' = doneClosed \cup {done}
            /\ ppc' = [ppc EXCEPT ![r] = "done"]
            /\ panicked' = panicked
  /\ UNCHANGED <<inputVars, cancel, done, cancelClosed, coordVars, lineVars,
                 readerVars, v, perr, recs>>

\* ---------------------------------------------------------- specification
Next ==
  \E r \in Runs :
    \/ MakeLine(r) \/ MakeCancel(r) \/ MakeDone(r)
    \/ GoReader(r) \/ GoParser(r) \/ EnterSelect(r)
    \/ RecvReaderErr(r) \/ RecvParserErr(r) \/ RecvDone(r) \/ Respond(r)
    \/ ReaderOpenZip(r) \/ ReaderNextFile(r) \/ ReaderIter(r)
    \/ ReaderPush(r) \/ ReaderCloseCancel(r) \/ ReaderCloseOut(r)
    \/ ParserRecv(r) \/ ParserPoll(r) \/ ParserRow(r)
    \/ ParserCloseCancel(r) \/ ParserCloseDone(r)

Spec == Init /\ [][Next]_vars

\* The Go scheduler runs every goroutine that can take a step: each of the
\* three goroutines of a run is weakly fair.  A rendezvous on chErr is a
\* step of the receiving handler and of the sending goroutine.
CoordNext(r) ==
  \/ MakeLine(r) \/ MakeCancel(r) \/ MakeDone(r)
  \/ GoReader(r) \/ GoParser(r) \/ EnterSelect(r)
  \/ RecvReaderErr(r) \/ RecvParserErr(r) \/ RecvDone(r) \/ Respond(r)

ReaderNext(r) ==
  \/ ReaderOpenZip(r) \/ ReaderNextFile(r) \/ ReaderIter(r)
  \/ ReaderPush(r) \/ ReaderCloseCancel(r) \/ ReaderCloseOut(r)

ParserNext(r) ==
  \/ ParserRecv(r) \/ ParserPoll(r) \/ ParserRow(r)
  \/ ParserCloseCancel(r) \/ ParserCloseDone(r)

Fairness ==
  \A r \in Runs :
    /\ WF_vars(CoordNext(r))
    /\ WF_vars(ReaderNext(r))
    /\ WF_vars(ParserNext(r))

\* The specification of the liveness properties: one request, over the
\* inputs whose target entry has fewer than MaxRows rows.
InitFair ==
  /\ requests = {1}
  /\ \E in1 \in {i \in InputSet : Len(i.rows) < MaxRows} :
       input = [r \in Runs |-> IF r = 1 THEN in1 ELSE DefaultInput]
  /\ \E c1 \in 1..MaxCap : cap = [r \in Runs |-> IF r = 1 THEN c1 ELSE 1]
  /\ InitRun

FairSpec == InitFair /\ [][Next]_vars /\ Fairness

\* ------------------------------------------------------ derived notions
\* The state machine of the coordinator: Idle, Running, Failed, Completed.
CoordState(r) ==
  IF cpc[r] = "failed" THEN "Failed"
  ELSE IF cpc[r] \in {"respond", "completed"} THEN "Completed"
  ELSE IF cpc[r] \in {"enterSelect", "select"} THEN "Running"
  ELSE "Idle"

\* A stage raised a failure: it reached its abort <- err.
ReaderRaised(r) == rerr[r] # NoErr
ParserRaised(r) == perr[r] # NoErr

Rows(r) == input[r].rows

NonNumeric(w) == HasField(w, 1) /\ ~SetStringOk(Field(w, 1))
IsSentinelRow(w) == HasField(w, 2) /\ Field(w, 2) = Sentinel
Retained(w) == HasField(w, 2) /\ Field(w, 2) # Sentinel

\* Every upper bound numeric, every row long enough for the fields read.
WellFormed(rw) ==
  \A i \in 1..Len(rw) : ~IndexPanics(rw[i]) /\ SetStringOk(Field(rw[i], 1))

\* The rows of rw that are not sentinel rows, in the order of rw.
RECURSIVE RetainedRows(_)
RetainedRows(rw) ==
  IF rw = <<>> THEN <<>>
  ELSE IF Retained(Head(rw)) THEN <<Head(rw)>> \o RetainedRows(Tail(rw))
  ELSE RetainedRows(Tail(rw))

\* ----------------------------------------------------------------- claims
\* C1: whenever the coordinator has ended and a stage raised a failure, it
\* ended in Failed, with an error and with no record handed to the caller;
\* it is in Completed only if no stage raised a failure.
C1_FailureMeansFailed ==
  \A r \in Runs :
    /\ (CoordState(r) \in {"Failed", "Completed"}
          /\ (ReaderRaised(r) \/ ParserRaised(r)))
         => /\ CoordState(r) = "Failed"
            /\ result[r] \in {rerr[r], perr[r]} \ {NoErr}
    /\ CoordState(r) = "Failed" => delivered[r] = <<>>
    /\ CoordState(r) = "Completed"
         => ~ReaderRaised(r) /\ ~ParserRaised(r) /\ result[r] = NoErr

\* C1 witness: the run failed on the parser's error after records were built.
C1_Witness ==
  /\ CoordState(1) = "Failed"
  /\ ParserRaised(1)
  /\ recs[1] # <<>>
  /\ delivered[1] = <<>>

\* C3: for a well-formed row sequence, a completed run delivers exactly as
\* many records as there are rows whose field 2 is not "-", and none of the
\* records carries the sentinel as its country code.
C3_CompletedCount ==
  \A r \in Runs :
    (cpc[r] = "completed" /\ WellFormed(Rows(r)))
      => /\ Len(delivered[r])
              = Cardinality({i \in 1..Len(Rows(r)) : Field(Rows(r)[i], 2) # Sentinel})
         /\ \A k \in 1..Len(delivered[r]) : delivered[r][k].CountryCode # Sentinel

\* C3 witness: a completed run over three rows, some sentinel and some not.
C3_Witness ==
  /\ cpc[1] = "completed"
  /\ Len(Rows(1)) = MaxRows
  /\ WellFormed(Rows(1))
  /\ \E i \in 1..Len(Rows(1)) : IsSentinelRow(Rows(1)[i])
  /\ Len(delivered[1]) = MaxRows - 1

\* C4: the channel holds, oldest first, exactly the rows pushed and not yet
\* taken, the row the parser holds being the one before them; and a
\* completed run delivers the records of the retained rows in row order.
C4_OrderPreserved ==
  \A r \in Runs :
    LET pushed == IF rpc[r] = "push" THEN ri[r] - 1 ELSE ri[r]
        taken == pushed - Len(line[r])
    IN /\ taken >= 0
       /\ line[r] = SubSeq(Rows(r), taken + 1, pushed)
       /\ ppc[r] \in {"poll", "parse"} => v[r] = Rows(r)[taken]
       /\ cpc[r] = "completed"
            => /\ Len(delivered[r]) = Len(RetainedRows(Rows(r)))
               /\ \A k \in 1..Len(delivered[r]) :
                    /\ delivered[r][k].CountryCode = Field(RetainedRows(Rows(r))[k], 2)
                    /\ delivered[r][k].ToIP = SetStringVal(Field(RetainedRows(Rows(r))[k], 1))

\* C4 witness: a completed run whose first two records differ, the channel
\* having had room for two rows.
C4_Witness ==
  /\ cpc[1] = "completed"
  /\ cap[1] >= 2
  /\ Len(delivered[1]) >= 2
  /\ delivered[1][1] # delivered[1][2]

\* C5: in every state, the k-th record of the output collection comes from
\* the k-th retained row: outside the whitelist its region and city are
\* empty, inside the whitelist they are fields 4 and 5 of that row.
C5_WhitelistFields ==
  \A r \in Runs :
    /\ Len(recs[r]) <= Len(RetainedRows(Rows(r)))
    /\ \A k \in 1..Len(recs[r]) :
         LET src == RetainedRows(Rows(r))[k]
             rec == recs[r][k]
         IN /\ rec.CountryCode = Field(src, 2)
            /\ rec.CountryCode \notin {<<"A", "U">>, <<"C", "A">>, <<"G", "B">>, <<"U", "S">>}
                 => rec.Region = <<>> /\ rec.City = <<>>
            /\ rec.CountryCode \in {<<"A", "U">>, <<"C", "A">>, <<"G", "B">>, <<"U", "S">>}
                 => rec.Region = Field(src, 4) /\ rec.City = Field(src, 5)

\* C5 witness: the collection holds a record of a whitelisted country and a
\* record of another country.
C5_Witness ==
  /\ \E k \in 1..Len(recs[1]) : recs[1][k].CountryCode = US /\ recs[1][k].Region # <<>>
  /\ \E k \in 1..Len(recs[1]) : recs[1][k].CountryCode = FR

\* C2: under fair scheduling the coordinator, once Running, eventually
\* reaches Failed or Completed, for every input.
C2_CoordinatorTerminates ==
  \A r \in Runs :
    (CoordState(r) = "Running") ~> (CoordState(r) \in {"Failed", "Completed"})

\* The first row of rw whose upper bound is non-numeric.
HasNonNumeric(rw) == \E i \in 1..Len(rw) : NonNumeric(rw[i])
FirstNonNumeric(rw) ==
  rw[CHOOSE i \in 1..Len(rw) :
       NonNumeric(rw[i]) /\ \A j \in 1..(i - 1) : ~NonNumeric(rw[j])]

\* C6 as stated: when some row has a non-numeric upper bound, a run that
\* has ended has failed with the error that carries that row, and no record
\* was handed to the caller.
C6_FailsWithOffendingRow ==
  \A r \in Runs :
    (HasNonNumeric(Rows(r)) /\ CoordState(r) \in {"Failed", "Completed"})
      => /\ CoordState(r) = "Failed"
         /\ result[r] = ParseErr(FirstNonNumeric(Rows(r)))
         /\ delivered[r] = <<>>

\* C6 amended: when some row has a non-numeric upper bound, the run never
\* completes and hands no record to the caller; a run that failed reports
\* either the error carrying the first such row or, when the entry also
\* ends in a read error, the read error of the reader.
C6_NonNumericNeverCompletes ==
  \A r \in Runs :
    HasNonNumeric(Rows(r))
      => /\ CoordState(r) # "Completed"
         /\ delivered[r] = <<>>
         /\ CoordState(r) = "Failed"
              => \/ result[r] = ParseErr(FirstNonNumeric(Rows(r)))
                 \/ input[r].readErr /\ result[r] = ReadErr

\* C6 witness: the run failed on a sentinel row with a non-numeric upper
\* bound, after a record had been built from an earlier row.
C6_Witness ==
  /\ CoordState(1) = "Failed"
  /\ result[1].kind = "parse"
  /\ IsSentinelRow(result[1].row)
  /\ recs[1] # <<>>
  /\ delivered[1] = <<>>

NoTargetEntry(r) == input[r].zipOK /\ ~HasTarget(input[r].files)

\* C7: when the container opens and holds no target entry, the reader
\* emits no row and raises no error, the run never fails, a completed run
\* has an empty output collection and its Completion Signal set, and under
\* fair scheduling the run ends Completed.
C7_AbsentEntryCompletes ==
  /\ [](\A r \in Runs :
          NoTargetEntry(r)
            => /\ line[r] = <<>> /\ ri[r] = 0
               /\ ~ReaderRaised(r) /\ ~ParserRaised(r)
               /\ CoordState(r) # "Failed"
               /\ CoordState(r) = "Completed"
                    => selDone[r] \in doneClosed /\ recs[r] = <<>>
               /\ delivered[r] = <<>>)
  /\ \A r \in Runs :
       (NoTargetEntry(r) /\ CoordState(r) = "Running") ~> (cpc[r] = "completed")

\* C7 witness: a run over a container with other entries only has completed.
C7_Witness ==
  /\ NoTargetEntry(1)
  /\ Len(input[1].files) >= 1
  /\ cpc[1] = "completed"
  /\ rpc[1] = "done"
  /\ delivered[1] = <<>>

\* C8: no state has the reader waiting to push a row onto a full channel
\* after the parser raised its failure and stopped consuming; in such a
\* state no goroutine of the run receives from the channel any more, so the
\* reader never terminates and never closes the channel.
C8_ReaderNotStuckOnFullQueue ==
  \A r \in Runs :
    ~ /\ Alive
      /\ ParserRaised(r)
      /\ ppc[r] \in {"closeCancel", "done"}
      /\ rpc[r] = "push"
      /\ Len(line[r]) = cap[r]

\* C9: no state has a stage waiting to send its error on chErr after the
\* handler returned on the error of the other stage; nothing receives from
\* chErr any more, so that stage never terminates.
C9_SecondSenderNotStuck ==
  \A r \in Runs :
    (Alive /\ CoordState(r) = "Failed")
      => rpc[r] # "sendErr" /\ ppc[r] # "sendErr"

\* C10: in a single run no stage is about to close a cancel channel that is
\* already closed, the two stages are never both about to close it, and
\* the process never panics on a close.
C10_CancelClosedOnce ==
  /\ panicked # "close of closed channel"
  /\ \A r \in Runs :
       /\ (rpc[r] = "closeCancel" \/ ppc[r] = "closeCancel")
            => cancel # 0 /\ cancel \notin cancelClosed
       /\ ~(rpc[r] = "closeCancel" /\ ppc[r] = "closeCancel")

\* C10 witness: both stages raised a failure and the token is set.
C10_Witness ==
  /\ ReaderRaised(1)
  /\ ParserRaised(1)
  /\ cancel \in cancelClosed

\* ------------------------------------------------ two overlapping requests
\* The archives of the two-request specification: a well-formed entry, an
\* entry whose row has a non-numeric upper bound, and an entry that ends in
\* a read error.
TwoInputs ==
  {MkInput(TRUE, <<TargetName>>, TRUE, <<RowUS>>, FALSE),
   MkInput(TRUE, <<TargetName>>, TRUE, <<RowBadSentinel>>, FALSE),
   MkInput(TRUE, <<TargetName>>, TRUE, <<RowUS>>, TRUE)}

\* net/http serves every request on a goroutine of its own: requests 1 and
\* 2 run ip2locInit concurrently, sharing the package variables.
InitTwo ==
  /\ requests = {1, 2}
  /\ \E in1 \in TwoInputs, in2 \in TwoInputs :
       input = [r \in Runs |-> IF r = 1 THEN in1 ELSE IF r = 2 THEN in2
                                ELSE DefaultInput]
  /\ cap = [r \in Runs |-> 1]
  /\ InitRun

SpecTwo == InitTwo /\ [][Next]_vars

\* C11: with two overlapping runs, no close of an already closed signal
\* happens; a stage of a run finds the token set only when its own run has
\* failed; and a run that completes hands over the records of all its
\* retained rows, not a partial collection.
C11_RunsIsolated ==
  /\ panicked # "close of closed channel"
  /\ \A r \in Runs :
       /\ (ppc[r] = "poll" /\ cancelled) => CoordState(r) = "Failed"
       /\ (rpc[r] = "poll" /\ cancelled) => CoordState(r) = "Failed"
       /\ CoordState(r) = "Completed"
            => /\ ~ReaderRaised(r) /\ ~ParserRaised(r)
               /\ Len(recs[r]) = Len(RetainedRows(Rows(r)))

\* C12: a row that lacks a field the parser reads does not crash the
\* process: no state has the process ended by an index-out-of-range panic.
C12_ShortRowNoCrash ==
  panicked # "index out of range"

\* C13: in a run in which a stage raised a failure the Completion Signal is
\* never set, and the parser is never about to set it.
C13_DoneOnlyWithoutFailure ==
  \A r \in Runs :
    (ReaderRaised(r) \/ ParserRaised(r))
      => r \notin doneClosed /\ ppc[r] # "closeDone"

\* C14: the reader has terminated exactly when the row channel is closed;
\* the close is done once, on a channel that is open; and a closed channel
\* is never pushed to and never reopened.
C14_QueueClosedOnce ==
  /\ [](\A r \in Runs : (rpc[r] = "done") <=> lineClosed[r])
  /\ [][\A r \in Runs :
          /\ (lineClosed'[r] # lineClosed[r])
               => ~lineClosed[r] /\ rpc[r] = "closeOut" /\ rpc'[r] = "done"
          /\ lineClosed[r]
               => lineClosed'[r] /\ Len(line'[r]) <= Len(line[r]) /\ rpc'[r] = "done"]_vars

\* C14 witness: the reader stopped on cancellation before it had extracted
\* every row, and the row channel is closed.
C14_Witness ==
  /\ rpc[1] = "done"
  /\ lineClosed[1]
  /\ ~ReaderRaised(1)
  /\ ri[1] < Len(Rows(1))

\* C15: under fair scheduling, once the reader has raised a failure the
\* parser terminates, unless the parser itself fails (it raises its own
\* error, or the process ends on a panic).
C15_ParserEndsAfterReaderFailure ==
  \A r \in Runs :
    ReaderRaised(r) ~> (ppc[r] = "done" \/ ParserRaised(r) \/ ~Alive)

\* C15 witness: the reader failed, and the parser, which did not fail,
\* terminated with a row still in the channel.
C15_Witness ==
  /\ ReaderRaised(1)
  /\ ~ParserRaised(1)
  /\ Alive
  /\ ppc[1] = "done"
  /\ line[1] # <<>>

\* C16: a reader that finds the token set at the head of its row loop goes
\* to the close of the row channel without pushing a row or raising an
\* error, and from there on it pushes no row, raises no error and only
\* closes the channel and terminates.
C16_ReaderStopsOnCancel ==
  [][\A r \in Runs :
       /\ (rpc[r] = "poll" /\ cancelled /\ rpc'[r] # rpc[r])
            => /\ rpc'[r] = "closeOut"
               /\ line'[r] = line[r]
               /\ rerr'[r] = rerr[r]
               /\ ri'[r] = ri[r]
       /\ rpc[r] \in {"closeOut", "done"}
            => /\ rpc'[r] \in {"closeOut", "done"}
               /\ Len(line'[r]) <= Len(line[r])
               /\ rerr'[r] = rerr[r]
               /\ ri'[r] = ri[r]]_vars

\* C16 witness: the reader found the token set and left the row loop with
\* rows of the entry still unread and without having raised an error.
C16_Witness ==
  /\ rpc[1] = "closeOut"
  /\ cancelled
  /\ ~ReaderRaised(1)
  /\ ri[1] < Len(Rows(1))

\* C17: a parser that finds the token set after taking a row terminates
\* without appending a record, raising an error or setting the Completion
\* Signal, and afterwards the output collection, its error and the
\* Completion Signal stay as they are.
C17_ParserStopsOnCancel ==
  [][\A r \in Runs :
       /\ (ppc[r] = "poll" /\ cancelled /\ ppc'[r] # ppc[r])
            => /\ ppc'[r] = "done"
               /\ recs'[r] = recs[r]
               /\ perr'[r] = perr[r]
               /\ doneClosed' = doneClosed
       /\ ppc[r] = "done"
            => /\ ppc'[r] = "done"
               /\ recs'[r] = recs[r]
               /\ perr'[r] = perr[r]
               /\ doneClosed' = doneClosed]_vars

\* C17 witness: the parser took a row that is not a sentinel row, found the
\* token set and terminated: no record, no error, no Completion Signal.
C17_Witness ==
  /\ ppc[1] = "done"
  /\ Retained(v[1])
  /\ recs[1] = <<>>
  /\ ~ParserRaised(1)
  /\ doneClosed = {}

\* C18: a stage is about to set the token only after the coordinator has
\* taken that stage's error; whenever a token is set, the coordinator of
\* its run is in Failed; a stage at its poll never finds the token set
\* while its coordinator is still Running.
C18_TokenSetAfterFailed ==
  \A r \in Runs :
    /\ rpc[r] = "closeCancel" => cpc[r] = "failed" /\ result[r] = rerr[r]
    /\ ppc[r] = "closeCancel" => cpc[r] = "failed" /\ result[r] = perr[r]
    /\ r \in cancelClosed => cpc[r] = "failed"
    /\ (cancelled /\ (rpc[r] = "poll" \/ ppc[r] = "poll")) => cpc[r] = "failed"

\* C18 witness: the token is set by the reader and the parser is at its
\* poll, about to find it set.
C18_Witness ==
  /\ 1 \in cancelClosed
  /\ ReaderRaised(1)
  /\ rpc[1] = "closeOut"
  /\ ppc[1] = "poll"
  /\ cpc[1] = "failed"

\* C19: while the coordinator reads the output collection, and afterwards,
\* the parser has terminated and the row channel is empty: no append can
\* follow, and what was handed to the caller is the whole collection.
C19_ReadAfterLastAppend ==
  \A r \in Runs :
    /\ cpc[r] \in {"respond", "completed"}
         => ppc[r] = "done" /\ rpc[r] = "done" /\ line[r] = <<>>
    /\ cpc[r] = "completed" => delivered[r] = recs[r]

\* C19 witness: the coordinator is about to read a collection of two or
\* more records.
C19_Witness ==
  /\ cpc[1] = "respond"
  /\ Len(recs[1]) >= 2
  /\ ppc[1] = "done"

====
